---- MODULE Spec2Model ----
(***************************************************************************)
(* A model of rust-htslib's BCF layer: src/bcf/header.rs (Header,          *)
(* HeaderView) and src/bcf/mod.rs (Reader, Writer, Records).               *)
(*                                                                         *)
(* The Rust code is a thin layer over the C library htslib.  The Rust      *)
(* layer is translated from the source.  The htslib calls it makes         *)
(* (bcf_hdr_dup, bcf_hdr_subset, bcf_translate, bcf_subset, bcf_read,      *)
(* bcf_write, ...) are modelled by what htslib's vcf.c does, each in a     *)
(* definition of its own carrying the C function's name, so that the two   *)
(* layers stay apart.  record.rs (Record::new, Record::trim_alleles) is    *)
(* not among the source files and is modelled from the specification.      *)
(*                                                                         *)
(* Header storage (a bcf_hdr_t) lives in a heap, hdrs, addressed by small  *)
(* integers that stand for the raw pointers the Rust structs hold.  A      *)
(* destroyed storage keeps its last content and is never handed out        *)
(* again, so a dangling pointer can be told from a live one.               *)
(***************************************************************************)
EXTENDS Integers, Sequences, FiniteSets, TLC

VARIABLES
    hdrs,      \* the heap of bcf_hdr_t storages
    headers,   \* the Header objects (header.rs:17-20)
    readers,   \* the Readers (mod.rs:16-19)
    writers,   \* the Writers (mod.rs:59-63)
    recs,      \* the Records (record.inner's content and record.header)
    disk,      \* the files, by path
    last,      \* the last call made and what it returned
    crashed,   \* the process was ended by a fault
    test       \* the sample names tests::test_write asks for (mod.rs:210)

vars == <<hdrs, headers, readers, writers, recs, disk, last, crashed, test>>

----------------------------------------------------------------------------
(* Bounds of the model. *)

MaxHdr == 3        \* header storages allocated over a run
MaxReaders == 1    \* Readers alive at once
MaxHeaders == 1    \* Header objects alive at once
MaxWriters == 1    \* Writers alive at once
MaxRecs == 1       \* Records alive at once
MaxSubset == 2     \* length of the sample list given to subset_template
MaxOut == 2        \* records written to one file

RecIds == 1..MaxRecs

----------------------------------------------------------------------------
(* Values. *)

\* The null pointer (inner.is_null(), header.rs:43).
NULL == 0

\* bcf_read's return codes as Reader::read tells them apart (mod.rs:34-39).
RC_OK == 0
RC_EOF == -1
RC_FAULT == -2

\* bcf_write's return code on failure (mod.rs:106).
WRITE_ERR == -1

Range(s) == {s[i] : i \in DOMAIN s}

IsDupFree(s) == \A i, j \in DOMAIN s : i # j => s[i] # s[j]

SeqsUpTo(S, n) == UNION {[1..k -> S] : k \in 0..n}

\* Option<SampleSubset> (header.rs:13,19).
None == [some |-> FALSE, map |-> <<>>]

Some(m) == [some |-> TRUE, map |-> m]

----------------------------------------------------------------------------
(* htslib: the header (bcf_hdr_t).  A dictionary is a sequence of entries, *)
(* the entry at position i+1 having id i.  An entry whose header line was  *)
(* removed is a gap: it keeps its id and no longer resolves by name.       *)

Entry(k) == [key |-> k, live |-> TRUE]

Unalloc ==
    [status |-> "unalloc", frees |-> 0, samples |-> <<>>, ctg |-> <<>>,
     ids |-> <<>>, ntransl |-> 0, transl_ctg |-> <<>>, transl_id |-> <<>>]

\* bcf_hdr_init("w"): an empty header.
bcf_hdr_init == [Unalloc EXCEPT !.status = "live"]

\* bcf_hdr_id2int on the contig or the INFO/FORMAT dictionary.
bcf_hdr_id2int(dict, name) ==
    IF \E i \in DOMAIN dict : dict[i].live /\ dict[i].key = name
    THEN (CHOOSE i \in DOMAIN dict : dict[i].live /\ dict[i].key = name) - 1
    ELSE -1

\* bcf_hdr_id2int on the sample dictionary.
sample_id2int(samples, name) ==
    IF \E i \in DOMAIN samples : samples[i] = name
    THEN (CHOOSE i \in DOMAIN samples : samples[i] = name) - 1
    ELSE -1

\* bcf_hdr_dup: the header is formatted to text (with the ids) and parsed
\* into fresh storage; the translation cache is not part of the text.
bcf_hdr_dup(h) ==
    [bcf_hdr_init EXCEPT !.samples = h.samples, !.ctg = h.ctg, !.ids = h.ids]

IsKnown(x) == x >= 0

\* bcf_hdr_subset(h0, n, samples, imap): imap[i] is the index of samples[i]
\* in h0, or -1 when h0 has no such sample; the new header keeps the
\* samples found, in the caller's order.  The result is never NULL for a
\* well-formed header.  With no sample in h0 the header is copied and imap
\* is all -1.
bcf_hdr_subset(h0, samples) ==
    LET imap == [i \in DOMAIN samples |->
                    IF Len(h0.samples) > 0
                    THEN sample_id2int(h0.samples, samples[i]) ELSE -1]
        found == SelectSeq(imap, IsKnown)
    IN [inner |-> [bcf_hdr_dup(h0) EXCEPT
                      !.samples = [i \in DOMAIN found |-> h0.samples[found[i] + 1]]],
        null |-> FALSE,
        imap |-> imap]

\* bcf_hdr_add_sample: a name already present is refused.
bcf_hdr_add_sample(h, s) ==
    IF s \in Range(h.samples) THEN h ELSE [h EXCEPT !.samples = Append(@, s)]

AddKey(dict, k) ==
    IF \E i \in DOMAIN dict : dict[i].key = k
    THEN [i \in DOMAIN dict |-> IF dict[i].key = k THEN Entry(k) ELSE dict[i]]
    ELSE Append(dict, Entry(k))

DelKey(dict, k) ==
    [i \in DOMAIN dict |-> IF dict[i].key = k THEN [dict[i] EXCEPT !.live = FALSE]
                           ELSE dict[i]]

\* bcf_hdr_append: a header line is parsed and its key entered.
bcf_hdr_append(h, line) ==
    IF line.type = "contig" THEN [h EXCEPT !.ctg = AddKey(@, line.key)]
    ELSE [h EXCEPT !.ids = AddKey(@, line.key)]

----------------------------------------------------------------------------
(* htslib: the record (bcf1_t) and the calls that take one.  ids in a      *)
(* record are 0-based indices into the dictionaries of the header the      *)
(* record is valid against.                                                *)

\* bcf_init: an empty record.
bcf_init ==
    [rid |-> 0, pos |-> 0, alleles |-> <<>>, info |-> <<>>, fmt |-> <<>>,
     n_sample |-> 0]

\* The translation table of one dictionary: for each id of src, the id the
\* same key has in dst, or -1 (a gap in src, or a key dst does not have).
TranslTable(dst_dict, src_dict) ==
    [i \in DOMAIN src_dict |->
        IF src_dict[i].live THEN bcf_hdr_id2int(dst_dict, src_dict[i].key) ELSE -1]

Moved(t) == Cardinality({i \in DOMAIN t : t[i] # -1 /\ t[i] # i - 1})

\* bcf_translate, first half: the tables are computed the first time src
\* is translated from (ntransl = 0) and kept in src; ntransl = -1 records
\* that nothing needs translating.  Later calls reuse what src holds,
\* whatever dst they are given.
bcf_translate_tables(dst, src) ==
    IF src.ntransl # 0 THEN src
    ELSE LET tid == TranslTable(dst.ids, src.ids)
             tctg == TranslTable(dst.ctg, src.ctg)
             n == Moved(tid) + Moved(tctg)
         IN IF n = 0 THEN [src EXCEPT !.ntransl = -1]
            ELSE [src EXCEPT !.ntransl = n, !.transl_id = tid,
                             !.transl_ctg = tctg]

\* transl[dict][id]; ub is what a read past the end of the table yields.
TranslAt(t, id, ub) == IF id + 1 \in DOMAIN t THEN t[id + 1] ELSE ub

\* An id is rewritten only when the table has a destination for it.
TranslId(t, id, ub) ==
    IF TranslAt(t, id, ub) >= 0 THEN TranslAt(t, id, ub) ELSE id

\* bcf_translate, second half: CHROM, INFO and FORMAT ids are rewritten
\* through src's tables; the alleles are not touched.  Always returns 0.
bcf_translate_line(src, line, ub) ==
    IF src.ntransl = -1 THEN line
    ELSE [line EXCEPT
            !.rid = TranslId(src.transl_ctg, line.rid, ub),
            !.info = [k \in DOMAIN line.info |->
                        [key |-> TranslId(src.transl_id, line.info[k].key, ub),
                         val |-> line.info[k].val]],
            !.fmt = [k \in DOMAIN line.fmt |->
                        [key |-> TranslId(src.transl_id, line.fmt[k].key, ub),
                         vals |-> line.fmt[k].vals]]]

\* Whether bcf_translate reads past the end of a table of src.
TranslReadsPastEnd(src, line) ==
    /\ src.ntransl > 0
    /\ \/ line.rid + 1 \notin DOMAIN src.transl_ctg
       \/ \E k \in DOMAIN line.info : line.info[k].key + 1 \notin DOMAIN src.transl_id
       \/ \E k \in DOMAIN line.fmt : line.fmt[k].key + 1 \notin DOMAIN src.transl_id

\* f->p + imap[j] * f->size; ub is what a read past the samples yields.
SampleAt(vals, j, ub) == IF j + 1 \in DOMAIN vals THEN vals[j + 1] ELSE ub

\* bcf_subset(h, v, n, imap): every FORMAT field keeps the values at the
\* indices imap names, in imap's order; entries < 0 are skipped; with no
\* sample left the FORMAT fields are dropped.  Always returns 0.
bcf_subset(v, imap, ub) ==
    LET keep == SelectSeq(imap, IsKnown)
    IN [v EXCEPT
          !.n_sample = Len(keep),
          !.fmt = IF Len(keep) = 0 THEN <<>>
                  ELSE [k \in DOMAIN v.fmt |->
                          [key |-> v.fmt[k].key,
                           vals |-> [i \in DOMAIN keep |->
                                       SampleAt(v.fmt[k].vals, keep[i], ub)]]]]

\* Whether bcf_subset reads past the record's samples.
SubsetReadsPastEnd(v, imap) ==
    /\ v.fmt # <<>>
    /\ \E i \in DOMAIN imap : imap[i] >= v.n_sample

\* bcf_write: the record is refused (-1) when it does not have as many
\* samples as the header; else it is appended to the file, unless the
\* storage fails (io).
bcf_write_rc(h, v, io) == IF Len(h.samples) # v.n_sample THEN WRITE_ERR ELSE io

\* What a file holds of a header (bcf_hdr_write) and of a record.
HdrText(h) == [samples |-> h.samples, ctg |-> h.ctg, ids |-> h.ids]

RecData(v) ==
    [rid |-> v.rid, pos |-> v.pos, alleles |-> v.alleles, info |-> v.info,
     fmt |-> v.fmt, n_sample |-> v.n_sample]

\* bcf_hdr_read: the header of a file, in fresh storage.
bcf_hdr_read(file) ==
    [bcf_hdr_init EXCEPT !.samples = file.hdr.samples, !.ctg = file.hdr.ctg,
                         !.ids = file.hdr.ids]

----------------------------------------------------------------------------
(* The inputs: names, header lines, sample lists, files.                   *)

SampleNames == {"a", "c", "z"}

Lines ==
    {[type |-> "contig", key |-> "c1"], [type |-> "contig", key |-> "c2"],
     [type |-> "INFO", key |-> "DP"], [type |-> "FORMAT", key |-> "GT"]}

\* The header lines the calls of Spec append: a contig and a tag that the
\* input file has under other ids.
FewLines == {l \in Lines : l.key \in {"c2", "GT"}}

Tags == {"DP", "GT"}

TagType(k) == IF k = "GT" THEN "FORMAT" ELSE "INFO"

\* The sample lists given to subset_template: no name twice.
SampleLists == {s \in SeqsUpTo(SampleNames, MaxSubset) : IsDupFree(s)}

\* What a read past the end of an array may yield.
UBVals == {-1, 0}

NoFile == [exists |-> FALSE, hdr |-> HdrText(Unalloc), recs |-> <<>>]

\* The input file: three samples, two contigs, one INFO and one FORMAT
\* tag, two records whose genotypes index their alleles.
TestRecords ==
    << [rid |-> 0, pos |-> 10, alleles |-> <<"A", "C", "X">>,
        info |-> <<[key |-> 0, val |-> 7]>>,
        fmt |-> <<[key |-> 1, vals |-> <<0, 1, 2>>]>>, n_sample |-> 3],
       [rid |-> 1, pos |-> 11, alleles |-> <<"G", "T">>,
        info |-> <<[key |-> 0, val |-> 8]>>,
        fmt |-> <<[key |-> 1, vals |-> <<1, 0, 1>>]>>, n_sample |-> 3] >>

TestFile ==
    [exists |-> TRUE,
     hdr |-> [samples |-> <<"a", "b", "c">>,
              ctg |-> <<Entry("c1"), Entry("c2")>>,
              ids |-> <<Entry("DP"), Entry("GT")>>],
     recs |-> TestRecords]

\* A file of records that carry a contig, a position and alleles only.
PlainFile ==
    [exists |-> TRUE,
     hdr |-> [samples |-> <<>>,
              ctg |-> <<Entry("c1"), Entry("c2")>>,
              ids |-> <<>>],
     recs |-> << [rid |-> 0, pos |-> 10, alleles |-> <<"A", "C">>,
                  info |-> <<>>, fmt |-> <<>>, n_sample |-> 0],
                 [rid |-> 1, pos |-> 11, alleles |-> <<"G", "T">>,
                  info |-> <<>>, fmt |-> <<>>, n_sample |-> 0] >>]

\* The contig lines.
ContigLines == {l \in Lines : l.type = "contig"}

InPath == "in"

OutPath(w) == IF w = 1 THEN "out1" ELSE "out2"

Paths == {InPath, "out1", "out2"}

----------------------------------------------------------------------------
(* The Rust objects.                                                       *)

NoHeader == [live |-> FALSE, inner |-> NULL, subset |-> None]

NoReader == [open |-> FALSE, path |-> InPath, pos |-> 0, header |-> NULL]

NoWriter == [open |-> FALSE, path |-> InPath, header |-> NULL, subset |-> None]

NoRecord == [live |-> FALSE, header |-> NULL] @@ bcf_init

\* Record::new (record.rs): an empty record bound to no header.
Record_new_value == [live |-> TRUE, header |-> NULL] @@ bcf_init

Call(op, obj, rec, res) ==
    [op |-> op, obj |-> obj, rec |-> rec, view |-> NULL, names |-> <<>>,
     res |-> res, ub |-> "none"]

HasFree == \E h \in DOMAIN hdrs : hdrs[h].status = "unalloc"

\* The address the next allocation of a header returns.
NextFree == CHOOSE h \in DOMAIN hdrs :
                /\ hdrs[h].status = "unalloc"
                /\ \A g \in DOMAIN hdrs : g < h => hdrs[g].status # "unalloc"

\* bcf_hdr_destroy.
bcf_hdr_destroy(h) == [h EXCEPT !.status = "freed", !.frees = @ + 1]

\* The HeaderViews a caller can borrow: reader.header and writer.header
\* (pub fields, mod.rs:18,61).
Views ==
    {readers[k].header : k \in {j \in DOMAIN readers : readers[j].open}}
    \cup {writers[w].header : w \in {v \in DOMAIN writers : writers[v].open}}

----------------------------------------------------------------------------
(* header.rs: Header and HeaderView.                                       *)

\* HeaderView::sample_count (header.rs:101-103).
sample_count(view) == Len(hdrs[view].samples)

\* HeaderView::samples (header.rs:105-108).
samples(view) == [i \in 1..sample_count(view) |-> hdrs[view].samples[i]]

\* Header::new (header.rs:25-30).
Header_new(h) ==
    /\ ~crashed /\ ~headers[h].live /\ HasFree
    /\ hdrs' = [hdrs EXCEPT ![NextFree] = bcf_hdr_init]
    /\ headers' = [headers EXCEPT ![h] = [live |-> TRUE, inner |-> NextFree,
                                          subset |-> None]]
    /\ last' = Call("Header::new", h, 0, "Header")
    /\ UNCHANGED <<readers, writers, recs, disk, crashed, test>>

\* Header::with_template (header.rs:32-34).
with_template(h, view) ==
    /\ ~crashed /\ ~headers[h].live /\ HasFree
    /\ view \in Views
    /\ hdrs' = [hdrs EXCEPT ![NextFree] = bcf_hdr_dup(hdrs[view])]
    /\ headers' = [headers EXCEPT ![h] = [live |-> TRUE, inner |-> NextFree,
                                          subset |-> None]]
    /\ last' = [Call("with_template", h, 0, "Header") EXCEPT !.view = view]
    /\ UNCHANGED <<readers, writers, recs, disk, crashed, test>>

\* subset_template with the null test inverted.
subset_template_inverted(h0, names) ==
    LET r == bcf_hdr_subset(h0, names)
    IN IF ~r.null THEN [ok |-> FALSE, inner |-> Unalloc, subset |-> None]
       ELSE [ok |-> TRUE, inner |-> r.inner, subset |-> Some(r.imap)]

\* The value Header::subset_template returns (header.rs:36-49): Err when
\* bcf_hdr_subset returns NULL, else the new header with imap as its subset.
subset_template_result(h0, names) ==
    LET r == bcf_hdr_subset(h0, names)
    IN IF r.null THEN [ok |-> FALSE, inner |-> Unalloc, subset |-> None]
       ELSE [ok |-> TRUE, inner |-> r.inner, subset |-> Some(r.imap)]

\* Header::subset_template (header.rs:36-49).
subset_template(h, view, names) ==
    /\ ~crashed /\ ~headers[h].live /\ HasFree
    /\ view \in Views
    /\ LET r == subset_template_result(hdrs[view], names)
       IN IF r.ok
          THEN /\ hdrs' = [hdrs EXCEPT ![NextFree] = r.inner]
               /\ headers' = [headers EXCEPT ![h] =
                                [live |-> TRUE, inner |-> NextFree,
                                 subset |-> r.subset]]
               /\ last' = [Call("subset_template", h, 0, "Ok") EXCEPT
                              !.view = view, !.names = names]
          ELSE /\ UNCHANGED <<hdrs, headers>>
               /\ last' = [Call("subset_template", h, 0, "Err") EXCEPT
                              !.view = view, !.names = names]
    /\ UNCHANGED <<readers, writers, recs, disk, crashed, test>>

\* Header::push_sample (header.rs:51-54).
push_sample(h, s) ==
    /\ ~crashed /\ headers[h].live
    /\ hdrs' = [hdrs EXCEPT ![headers[h].inner] = bcf_hdr_add_sample(@, s)]
    /\ last' = [Call("push_sample", h, 0, "self") EXCEPT !.names = <<s>>]
    /\ UNCHANGED <<headers, readers, writers, recs, disk, crashed, test>>

\* Header::push_record (header.rs:57-60).
push_record(h, line) ==
    /\ ~crashed /\ headers[h].live
    /\ hdrs' = [hdrs EXCEPT ![headers[h].inner] = bcf_hdr_append(@, line)]
    /\ last' = [Call("push_record", h, 0, "self") EXCEPT !.names = <<line.key>>]
    /\ UNCHANGED <<headers, readers, writers, recs, disk, crashed, test>>

\* bcf_hdr_remove(h, type, key): the line of that type and key is removed.
\* The key is passed as tag.as_ptr(), with no terminating NUL
\* (header.rs:64,71): htslib reads on past the slice, and finds the tag
\* only when the byte after it happens to be 0 (nul).
bcf_hdr_remove(h, type, tag, nul) ==
    IF nul /\ TagType(tag) = type THEN [h EXCEPT !.ids = DelKey(@, tag)] ELSE h

\* Header::remove_info (header.rs:62-67).
remove_info(h, tag, nul) ==
    /\ ~crashed /\ headers[h].live
    /\ hdrs' = [hdrs EXCEPT ![headers[h].inner] = bcf_hdr_remove(@, "INFO", tag, nul)]
    /\ last' = [Call("remove_info", h, 0, "self") EXCEPT !.names = <<tag>>]
    /\ UNCHANGED <<headers, readers, writers, recs, disk, crashed, test>>

\* Header::remove_format (header.rs:69-74).
remove_format(h, tag, nul) ==
    /\ ~crashed /\ headers[h].live
    /\ hdrs' = [hdrs EXCEPT ![headers[h].inner] = bcf_hdr_remove(@, "FORMAT", tag, nul)]
    /\ last' = [Call("remove_format", h, 0, "self") EXCEPT !.names = <<tag>>]
    /\ UNCHANGED <<headers, readers, writers, recs, disk, crashed, test>>

\* impl Drop for Header (header.rs:78-82).
Header_drop(h) ==
    /\ ~crashed /\ headers[h].live
    /\ hdrs' = [hdrs EXCEPT ![headers[h].inner] = bcf_hdr_destroy(@)]
    /\ headers' = [headers EXCEPT ![h] = NoHeader]
    /\ last' = Call("Header::drop", h, 0, "unit")
    /\ UNCHANGED <<readers, writers, recs, disk, crashed, test>>

----------------------------------------------------------------------------
(* mod.rs: Reader and Records.                                             *)

\* Reader::new (mod.rs:26-30).  The file exists and is not being written.
Reader_new(k, path) ==
    /\ ~crashed /\ ~readers[k].open /\ HasFree
    /\ disk[path].exists
    /\ \A w \in DOMAIN writers : writers[w].open => writers[w].path # path
    /\ hdrs' = [hdrs EXCEPT ![NextFree] = bcf_hdr_read(disk[path])]
    /\ readers' = [readers EXCEPT ![k] =
                     [open |-> TRUE, path |-> path, pos |-> 0, header |-> NextFree]]
    /\ last' = Call("Reader::new", k, 0, "Reader")
    /\ UNCHANGED <<headers, writers, recs, disk, crashed, test>>

\* What bcf_read may return at the reader's position: a record or a fault
\* while records are left, the end of the file or a fault after the last.
bcf_read_rcs(rd) ==
    IF rd.pos < Len(disk[rd.path].recs) THEN {RC_OK, RC_FAULT}
    ELSE {RC_EOF, RC_FAULT}

\* bcf_read: the record's content after the call.
bcf_read(rd, v, rc) ==
    IF rc = RC_OK THEN disk[rd.path].recs[rd.pos + 1] ELSE RecData(v)

\* Reader::read with every failure of bcf_read taken for the end of the
\* file.
read_any_failure_ends(rd, record, rc) ==
    LET v == [live |-> TRUE, header |-> record.header] @@ bcf_read(rd, record, rc)
    IN IF rc = RC_OK
       THEN [rec |-> [v EXCEPT !.header = rd.header], res |-> "Ok"]
       ELSE [rec |-> v, res |-> "NoMoreRecord"]

\* The value Reader::read returns and the record it leaves (mod.rs:32-41).
read(rd, record, rc) ==
    LET v == [live |-> TRUE, header |-> record.header] @@ bcf_read(rd, record, rc)
    IN IF rc = RC_OK
       THEN [rec |-> [v EXCEPT !.header = rd.header], res |-> "Ok"]
       ELSE IF rc = RC_EOF
            THEN [rec |-> v, res |-> "NoMoreRecord"]
            ELSE [rec |-> v, res |-> "Invalid"]

\* The reader's file position after bcf_read.
Advance(rd, rc) == IF rc = RC_OK THEN [rd EXCEPT !.pos = @ + 1] ELSE rd

\* Reader::read on a record the caller holds (mod.rs:32-41).
Reader_read(k, r, rc) ==
    /\ ~crashed /\ readers[k].open /\ recs[r].live
    /\ rc \in bcf_read_rcs(readers[k])
    /\ recs' = [recs EXCEPT ![r] = read(readers[k], recs[r], rc).rec]
    /\ readers' = [readers EXCEPT ![k] = Advance(@, rc)]
    /\ last' = [Call("read", k, r, read(readers[k], recs[r], rc).res)
                  EXCEPT !.view = rc]
    /\ UNCHANGED <<hdrs, headers, writers, disk, crashed, test>>

\* The value Records::next returns (mod.rs:134-141).
next(rd, rc) ==
    LET got == read(rd, Record_new_value, rc)
    IN IF got.res = "NoMoreRecord" THEN [res |-> "None", rec |-> NoRecord]
       ELSE IF got.res = "Ok" THEN [res |-> "Some(Ok)", rec |-> got.rec]
            ELSE [res |-> "Some(Err)", rec |-> NoRecord]

\* Records::next (mod.rs:134-141); the caller keeps a record it is given
\* in r.
Records_next(k, r, rc) ==
    /\ ~crashed /\ readers[k].open
    /\ rc \in bcf_read_rcs(readers[k])
    /\ recs' = IF next(readers[k], rc).res = "Some(Ok)"
               THEN [recs EXCEPT ![r] = next(readers[k], rc).rec] ELSE recs
    /\ readers' = [readers EXCEPT ![k] = Advance(@, rc)]
    /\ last' = [Call("next", k, r, next(readers[k], rc).res) EXCEPT !.view = rc]
    /\ UNCHANGED <<hdrs, headers, writers, disk, crashed, test>>

\* impl Drop for Reader (mod.rs:49-56).
Reader_drop(k) ==
    /\ ~crashed /\ readers[k].open
    /\ hdrs' = [hdrs EXCEPT ![readers[k].header] = bcf_hdr_destroy(@)]
    /\ readers' = [readers EXCEPT ![k] = NoReader]
    /\ last' = Call("Reader::drop", k, 0, "unit")
    /\ UNCHANGED <<headers, writers, recs, disk, crashed, test>>

\* Record::new (record.rs).
Record_new(r) ==
    /\ ~crashed /\ ~recs[r].live
    /\ recs' = [recs EXCEPT ![r] = Record_new_value]
    /\ last' = Call("Record::new", 0, r, "Record")
    /\ UNCHANGED <<hdrs, headers, readers, writers, disk, crashed, test>>

\* The alleles Record::trim_alleles keeps (record.rs): the reference and
\* every allele a genotype of the record calls.
KeptAlleles(v, gt) ==
    {a \in 0..(Len(v.alleles) - 1) : a = 0 \/ a \in Range(gt)}

\* The index an allele has once the alleles not kept are gone.
Renumbered(kept, a) == Cardinality({b \in kept : b < a})

\* The value Record::trim_alleles returns and the record it leaves
\* (record.rs): Err when the record has no genotype field.
trim_alleles_result(v, h) ==
    LET id == bcf_hdr_id2int(h.ids, "GT")
        gts == {f \in DOMAIN v.fmt : v.fmt[f].key = id}
    IN IF id = -1 \/ gts = {} THEN [ok |-> FALSE, rec |-> v]
       ELSE LET g == CHOOSE f \in gts : TRUE
                kept == KeptAlleles(v, v.fmt[g].vals)
            IN [ok |-> TRUE,
                rec |-> [v EXCEPT
                    !.alleles = [j \in 1..Cardinality(kept) |->
                        v.alleles[(CHOOSE a \in kept : Renumbered(kept, a) = j - 1) + 1]],
                    !.fmt = [f \in DOMAIN v.fmt |->
                        IF f = g
                        THEN [key |-> v.fmt[f].key,
                              vals |-> [i \in DOMAIN v.fmt[f].vals |->
                                          Renumbered(kept, v.fmt[f].vals[i])]]
                        ELSE v.fmt[f]]]]

\* Record::trim_alleles (record.rs), on a record whose header is alive.
trim_alleles(r) ==
    /\ ~crashed /\ recs[r].live
    /\ recs[r].header # NULL /\ hdrs[recs[r].header].status = "live"
    /\ LET t == trim_alleles_result(recs[r], hdrs[recs[r].header])
       IN /\ recs' = [recs EXCEPT ![r] = t.rec]
          /\ last' = Call("trim_alleles", 0, r, IF t.ok THEN "Ok" ELSE "Err")
    /\ UNCHANGED <<hdrs, headers, readers, writers, disk, crashed, test>>

----------------------------------------------------------------------------
(* mod.rs: Writer.                                                         *)

\* A Writer that keeps the pointer of the Header it is given.
Writer_new_sharing(w, header, dup) ==
    [open |-> TRUE, path |-> OutPath(w), header |-> header.inner,
     subset |-> header.subset]

\* The Writer that Writer::new builds (mod.rs:80-84): a duplicate of the
\* header at address dup, and a clone of the subset.
Writer_new_value(w, header, dup) ==
    [open |-> TRUE, path |-> OutPath(w), header |-> dup, subset |-> header.subset]

\* Writer::new (mod.rs:70-85): the file is opened, the header written to
\* it, and the header duplicated.
Writer_new(w, h) ==
    /\ ~crashed /\ ~writers[w].open /\ headers[h].live /\ HasFree
    /\ \A k \in DOMAIN readers : readers[k].open => readers[k].path # OutPath(w)
    /\ disk' = [disk EXCEPT ![OutPath(w)] =
                  [exists |-> TRUE, hdr |-> HdrText(hdrs[headers[h].inner]),
                   recs |-> <<>>]]
    /\ LET new == Writer_new_value(w, headers[h], NextFree)
       IN /\ writers' = [writers EXCEPT ![w] = new]
          /\ hdrs' = IF new.header = NextFree
                     THEN [hdrs EXCEPT ![NextFree] = bcf_hdr_dup(hdrs[headers[h].inner])]
                     ELSE hdrs
    /\ last' = Call("Writer::new", w, h, "Writer")
    /\ UNCHANGED <<headers, readers, recs, crashed, test>>

\* What dereferencing a header pointer does.
Deref(p) ==
    IF p = NULL THEN "null_deref"
    ELSE IF hdrs[p].status = "live" THEN "none" ELSE "use_after_free"

\* The record Writer::translate leaves (mod.rs:88-93): ids rewritten by
\* bcf_translate, whose return value is not looked at, and the record bound
\* to the writer's header.
translate_record(writer, src, record, ub) ==
    [live |-> TRUE, header |-> writer.header]
        @@ RecData(bcf_translate_line(src, record, ub))

\* Writer::translate (mod.rs:88-93).  bcf_translate reads the header the
\* record is bound to: with a null binding the process faults; with a
\* binding to destroyed storage, or an id past the end of a table, the
\* behaviour is undefined: the process faults (how = "fault") or goes on
\* with what the memory holds (how = "run").
translate(w, r, ub, how) ==
    /\ ~crashed /\ writers[w].open /\ recs[r].live
    /\ LET p == recs[r].header
           fault == IF Deref(p) # "none" THEN Deref(p)
                    ELSE IF TranslReadsPastEnd(bcf_translate_tables(
                                hdrs[writers[w].header], hdrs[p]), recs[r])
                         THEN "read_past_end" ELSE "none"
       IN /\ how = "fault" => fault # "none"
          /\ how = "run" => fault # "null_deref"
          /\ last' = [Call("translate", w, r, IF how = "run" THEN "unit" ELSE "fault")
                        EXCEPT !.ub = fault]
          /\ crashed' = (how = "fault")
          /\ IF how = "fault" THEN UNCHANGED <<hdrs, recs>>
             ELSE LET src == bcf_translate_tables(hdrs[writers[w].header], hdrs[p])
                  IN /\ hdrs' = [hdrs EXCEPT ![p] = src]
                     /\ recs' = [recs EXCEPT ![r] =
                                   translate_record(writers[w], src, recs[r], ub)]
    /\ UNCHANGED <<headers, readers, writers, disk, test>>

\* Writer::subset keeping the first samples of the record, as many as the
\* subset names.
subset_record_first(writer, record, ub) ==
    IF writer.subset.some
    THEN [live |-> TRUE, header |-> record.header]
            @@ bcf_subset(RecData(record),
                          [i \in DOMAIN writer.subset.map |-> i - 1], ub)
    ELSE record

\* The record Writer::subset leaves (mod.rs:96-103).
subset_record(writer, record, ub) ==
    IF writer.subset.some
    THEN [live |-> TRUE, header |-> record.header]
            @@ bcf_subset(RecData(record), writer.subset.map, ub)
    ELSE record

\* Writer::subset (mod.rs:96-103).  A subset entry past the record's
\* samples makes bcf_subset read past the end of the record's data.
subset(w, r, ub, how) ==
    /\ ~crashed /\ writers[w].open /\ recs[r].live
    /\ LET fault == IF writers[w].subset.some
                       /\ SubsetReadsPastEnd(recs[r], writers[w].subset.map)
                    THEN "read_past_end" ELSE "none"
       IN /\ how = "fault" => fault # "none"
          /\ last' = [Call("subset", w, r, IF how = "run" THEN "unit" ELSE "fault")
                        EXCEPT !.ub = fault]
          /\ crashed' = (how = "fault")
          /\ recs' = IF how = "fault" THEN recs
                     ELSE [recs EXCEPT ![r] = subset_record(writers[w], recs[r], ub)]
    /\ UNCHANGED <<hdrs, headers, readers, writers, disk, test>>

\* The value Writer::write returns (mod.rs:105-112).
write_result(writer, record, io) ==
    IF bcf_write_rc(hdrs[writer.header], record, io) = WRITE_ERR THEN "Err" ELSE "Ok"

\* Writer::write (mod.rs:105-112).
write(w, r, io) ==
    /\ ~crashed /\ writers[w].open /\ recs[r].live
    /\ io \in {RC_OK, WRITE_ERR}
    /\ Len(disk[writers[w].path].recs) < MaxOut
    /\ disk' = IF write_result(writers[w], recs[r], io) = "Ok"
               THEN [disk EXCEPT ![writers[w].path].recs = Append(@, RecData(recs[r]))]
               ELSE disk
    /\ last' = Call("write", w, r, write_result(writers[w], recs[r], io))
    /\ UNCHANGED <<hdrs, headers, readers, writers, recs, crashed, test>>

\* impl Drop for Writer (mod.rs:116-123).
Writer_drop(w) ==
    /\ ~crashed /\ writers[w].open
    /\ hdrs' = [hdrs EXCEPT ![writers[w].header] = bcf_hdr_destroy(@)]
    /\ writers' = [writers EXCEPT ![w] = NoWriter]
    /\ last' = Call("Writer::drop", w, 0, "unit")
    /\ UNCHANGED <<headers, readers, recs, disk, crashed, test>>

----------------------------------------------------------------------------
(* The specifications.                                                     *)

InitWith(heap, nreaders, nheaders, nwriters, file) ==
    /\ hdrs = [h \in heap |-> Unalloc]
    /\ headers = [h \in 1..nheaders |-> NoHeader]
    /\ readers = [k \in 1..nreaders |-> NoReader]
    /\ writers = [w \in 1..nwriters |-> NoWriter]
    /\ recs = [r \in RecIds |-> NoRecord]
    /\ disk = [p \in Paths |-> IF p = InPath THEN file ELSE NoFile]
    /\ last = Call("init", 0, 0, "unit")
    /\ crashed = FALSE
    /\ test = <<>>

RCs == {RC_OK, RC_EOF, RC_FAULT}

Hows == {"run", "fault"}

(* Spec: one Reader, one Header, one Writer and one Record, every          *)
(* interleaving of their calls.                                            *)

Init == InitWith(1..MaxHdr, MaxReaders, MaxHeaders, MaxWriters, TestFile)

Next ==
    \/ \E h \in DOMAIN headers : Header_new(h)
    \/ \E h \in DOMAIN headers, v \in DOMAIN hdrs : with_template(h, v)
    \/ \E h \in DOMAIN headers, v \in DOMAIN hdrs, s \in SampleLists :
          subset_template(h, v, s)
    \/ \E h \in DOMAIN headers, l \in FewLines : push_record(h, l)
    \/ \E h \in DOMAIN headers : Header_drop(h)
    \/ \E k \in DOMAIN readers : Reader_new(k, InPath)
    \/ \E k \in DOMAIN readers, r \in RecIds, rc \in RCs : Reader_read(k, r, rc)
    \/ \E k \in DOMAIN readers, r \in RecIds, rc \in RCs : Records_next(k, r, rc)
    \/ \E k \in DOMAIN readers : Reader_drop(k)
    \/ \E r \in RecIds : Record_new(r)
    \/ \E w \in DOMAIN writers, h \in DOMAIN headers : Writer_new(w, h)
    \/ \E w \in DOMAIN writers, r \in RecIds, ub \in UBVals, how \in Hows :
          translate(w, r, ub, how)
    \/ \E w \in DOMAIN writers, r \in RecIds, ub \in UBVals, how \in Hows :
          subset(w, r, ub, how)
    \/ \E w \in DOMAIN writers, r \in RecIds, io \in {RC_OK, WRITE_ERR} :
          write(w, r, io)
    \/ \E w \in DOMAIN writers : Writer_drop(w)

Spec == Init /\ [][Next]_vars

----------------------------------------------------------------------------
(* The claims checked under Spec.                                          *)

\* C1: for a header H and a duplicate-free list S of names that are all
\* samples of H, subset_template(H, S) returns Ok with a header whose
\* sample list is S in the caller's order and a subset map of length
\* len(S) whose entry i is the index of S[i] in H (so every entry is in
\* 0..sample_count(H)-1 and no entry occurs twice).
C1_SubsetKeepsOrder ==
    (/\ last.op = "subset_template"
     /\ IsDupFree(last.names)
     /\ Range(last.names) \subseteq Range(hdrs[last.view].samples))
    => /\ last.res = "Ok"
       /\ headers[last.obj].live
       /\ samples(headers[last.obj].inner) = last.names
       /\ headers[last.obj].subset.some
       /\ Len(headers[last.obj].subset.map) = Len(last.names)
       /\ IsDupFree(headers[last.obj].subset.map)
       /\ \A i \in DOMAIN last.names :
            /\ headers[last.obj].subset.map[i] \in 0..(sample_count(last.view) - 1)
            /\ hdrs[last.view].samples[headers[last.obj].subset.map[i] + 1]
                  = last.names[i]

\* A subset that reorders: samples c and a of a, b, c, giving the map 2, 0.
C1_Witness ==
    /\ last.op = "subset_template" /\ last.res = "Ok"
    /\ last.names = <<"c", "a">>
    /\ hdrs[last.view].samples = <<"a", "b", "c">>
    /\ headers[last.obj].subset = Some(<<2, 0>>)

\* C2: subset_template(H, S) returns Err and makes no header whenever a
\* name of S is not a sample of H, and never returns Ok with a subset map
\* holding an entry that is not an index into H's samples.
C2_UnknownSampleIsError ==
    last.op = "subset_template"
    => /\ ~(Range(last.names) \subseteq Range(hdrs[last.view].samples))
            => (last.res = "Err" /\ ~headers[last.obj].live)
       /\ last.res = "Ok"
            => \A i \in DOMAIN headers[last.obj].subset.map :
                  headers[last.obj].subset.map[i] \in 0..(sample_count(last.view) - 1)

\* The record's contig, by name, is not in the writer's header.
ContigUnknown(w, r) ==
    /\ Deref(recs[r].header) = "none"
    /\ recs[r].rid + 1 \in DOMAIN hdrs[recs[r].header].ctg
    /\ bcf_hdr_id2int(hdrs[writers[w].header].ctg,
                      hdrs[recs[r].header].ctg[recs[r].rid + 1].key) = -1

\* C3: translate on a record whose contig is not in the writer's header
\* fails with an error and leaves the record bound to the header it was
\* bound to.
C3_UnknownContigFails ==
    [][\A w \in DOMAIN writers, r \in RecIds :
          (/\ last'.op = "translate" /\ last'.obj = w /\ last'.rec = r
           /\ writers[w].open /\ recs[r].live /\ ContigUnknown(w, r))
          => (last'.res = "Err" /\ recs'[r].header = recs[r].header)]_vars

\* FORMAT field f of the new fields holds, for each entry of map, the old
\* field's value at that index.
PickedByMap(old, newfmt, f, map) ==
    /\ f \in DOMAIN newfmt
    /\ newfmt[f].key = old.key
    /\ Len(newfmt[f].vals) = Len(map)
    /\ \A i \in DOMAIN map :
          /\ map[i] + 1 \in DOMAIN old.vals
          /\ newfmt[f].vals[i] = old.vals[map[i] + 1]

\* C5: subset on a writer with subset map M leaves every FORMAT field with
\* len(M) values, the i-th being the old value at index M[i], and leaves
\* the INFO fields alone (with an empty M the FORMAT fields may be gone
\* altogether); on a writer with no subset map it leaves the record as it
\* was.
C5_SubsetPicksByMap ==
    [][\A w \in DOMAIN writers, r \in RecIds :
          (/\ last'.op = "subset" /\ last'.obj = w /\ last'.rec = r
           /\ writers[w].open /\ recs[r].live)
          => IF writers[w].subset.some
             THEN /\ last'.res = "unit"
                  /\ recs'[r].info = recs[r].info
                  /\ \A f \in DOMAIN recs[r].fmt :
                       \/ (writers[w].subset.map = <<>> /\ recs'[r].fmt = <<>>)
                       \/ PickedByMap(recs[r].fmt[f], recs'[r].fmt, f,
                                      writers[w].subset.map)
             ELSE recs'[r] = recs[r]]_vars

\* C6: read returns NoMoreRecord only at the clean end of the file and
\* Invalid on every other failure; Records::next ends (None) exactly on
\* NoMoreRecord and yields every fault as Some(Err); a record is bound to
\* the reader's header only by a read that succeeds.
C6_EndIsNotFault ==
    [][\A k \in DOMAIN readers, r \in RecIds :
          (last'.obj = k /\ last'.rec = r /\ readers[k].open)
          => /\ last'.op = "read"
                  => /\ last'.res = "NoMoreRecord"
                          <=> (/\ last'.view = RC_EOF
                               /\ readers[k].pos = Len(disk[readers[k].path].recs))
                     /\ last'.res = "Invalid" <=> last'.view \notin {RC_OK, RC_EOF}
                     /\ last'.res = "Ok" <=> last'.view = RC_OK
                     /\ last'.res = "Ok" => recs'[r].header = readers[k].header
                     /\ last'.res # "Ok" => recs'[r].header = recs[r].header
             /\ last'.op = "next"
                  => /\ last'.res = "None"
                          <=> (/\ last'.view = RC_EOF
                               /\ readers[k].pos = Len(disk[readers[k].path].recs))
                     /\ last'.res = "Some(Err)" <=> last'.view \notin {RC_OK, RC_EOF}
                     /\ last'.res = "Some(Ok)" <=> last'.view = RC_OK
                     /\ last'.res = "Some(Ok)"
                          => recs'[r].header = readers[k].header
                     /\ last'.res # "Some(Ok)" => recs'[r] = recs[r]]_vars

\* A fault met after a record was read, yielded as Some(Err) with records
\* still left in the file.
C6_Witness ==
    /\ last.op = "next" /\ last.res = "Some(Err)" /\ last.view = RC_FAULT
    /\ readers[last.obj].open
    /\ readers[last.obj].pos = 1
    /\ recs[last.rec].live /\ recs[last.rec].header = readers[last.obj].header

\* C9: write does not succeed on a record that is bound to a header other
\* than that of the writer it is given to (a reader's, another writer's).
C9_WriteNeedsBinding ==
    [][\A w \in DOMAIN writers, r \in RecIds :
          (/\ last'.op = "write" /\ last'.obj = w /\ last'.rec = r
           /\ writers[w].open /\ recs[r].live
           /\ recs[r].header # NULL
           /\ recs[r].header # writers[w].header)
          => last'.res # "Ok"]_vars

\* C10: every header storage is destroyed at most once, and by its one
\* owner; no call reads the header a record is bound to after that header
\* was destroyed.
C10_HeaderLifetime ==
    /\ \A h \in DOMAIN hdrs :
          /\ hdrs[h].frees <= 1
          /\ hdrs[h].status = "live"
               <=> \/ \E k \in DOMAIN readers : readers[k].open /\ readers[k].header = h
                   \/ \E w \in DOMAIN writers : writers[w].open /\ writers[w].header = h
                   \/ \E x \in DOMAIN headers : headers[x].live /\ headers[x].inner = h
    /\ last.ub # "use_after_free"

----------------------------------------------------------------------------
(* SpecTransl: records translated between two Writers whose headers were   *)
(* built apart, so that the same key has different ids in them.            *)

InitTransl ==
    InitWith(1..(MaxHdr + 2), MaxReaders, MaxHeaders, MaxWriters + 1, PlainFile)

NextTransl ==
    \/ \E h \in DOMAIN headers : Header_new(h)
    \/ \E h \in DOMAIN headers, v \in DOMAIN hdrs : with_template(h, v)
    \/ \E h \in DOMAIN headers, l \in ContigLines : push_record(h, l)
    \/ \E h \in DOMAIN headers : Header_drop(h)
    \/ \E k \in DOMAIN readers : Reader_new(k, InPath)
    \/ \E k \in DOMAIN readers, r \in RecIds : Records_next(k, r, RC_OK)
    \/ \E w \in DOMAIN writers, h \in DOMAIN headers : Writer_new(w, h)
    \/ \E w \in DOMAIN writers, r \in RecIds, ub \in UBVals, how \in Hows :
          translate(w, r, ub, how)

SpecTransl == InitTransl /\ [][NextTransl]_vars

\* Every id of the record is an id of the header.
ValidAgainst(v, h) ==
    /\ v.rid + 1 \in DOMAIN h.ctg
    /\ \A f \in DOMAIN v.info : v.info[f].key + 1 \in DOMAIN h.ids
    /\ \A f \in DOMAIN v.fmt : v.fmt[f].key + 1 \in DOMAIN h.ids

\* C4: a second translate by the same writer changes nothing: on a record
\* already bound to the writer's header (and valid against it), translate
\* rewrites no id (contig, INFO, FORMAT), leaves the alleles and leaves the
\* binding.
C4_TranslateIdempotent ==
    [][\A w \in DOMAIN writers, r \in RecIds :
          (/\ last'.op = "translate" /\ last'.obj = w /\ last'.rec = r
           /\ writers[w].open /\ recs[r].live
           /\ recs[r].header = writers[w].header
           /\ ValidAgainst(recs[r], hdrs[writers[w].header]))
          => (last'.res = "unit" /\ recs'[r] = recs[r])]_vars

----------------------------------------------------------------------------
(* SpecHdr: a Header is built, mutated and dropped while a Writer made     *)
(* from it, and a Reader, are alive.  No record is involved.               *)

InitHdr == InitWith(1..MaxHdr, MaxReaders, MaxHeaders, MaxWriters, TestFile)

\* The sample a caller adds that the file does not have.
NewSamples == SampleNames \ Range(TestFile.hdr.samples)

NextHdr ==
    \/ \E h \in DOMAIN headers : Header_new(h)
    \/ \E h \in DOMAIN headers, v \in DOMAIN hdrs : with_template(h, v)
    \/ \E h \in DOMAIN headers, v \in DOMAIN hdrs, n \in SampleLists :
          Len(n) = 1 /\ subset_template(h, v, n)
    \/ \E h \in DOMAIN headers, s \in NewSamples : push_sample(h, s)
    \/ \E h \in DOMAIN headers, l \in FewLines : push_record(h, l)
    \/ \E h \in DOMAIN headers, t \in Tags, nul \in BOOLEAN : remove_info(h, t, nul)
    \/ \E h \in DOMAIN headers, t \in Tags, nul \in BOOLEAN : remove_format(h, t, nul)
    \/ \E h \in DOMAIN headers : Header_drop(h)
    \/ \E k \in DOMAIN readers : Reader_new(k, InPath)
    \/ \E k \in DOMAIN readers : Reader_drop(k)
    \/ \E w \in DOMAIN writers, h \in DOMAIN headers : Writer_new(w, h)
    \/ \E w \in DOMAIN writers : Writer_drop(w)

SpecHdr == InitHdr /\ [][NextHdr]_vars

HeaderMutations ==
    {"push_sample", "push_record", "remove_info", "remove_format", "Header::drop"}

\* C7: an open Writer's header storage is live and is the storage of no
\* live Header and of no open Reader, and a mutation or the destruction of a
\* Header leaves every open Writer, its header's dictionaries and its
\* subset map as they were.
C7_WriterHeaderPrivate ==
    /\ [](\A w \in DOMAIN writers :
            writers[w].open =>
                /\ hdrs[writers[w].header].status = "live"
                /\ \A h \in DOMAIN headers :
                      headers[h].live => headers[h].inner # writers[w].header
                /\ \A k \in DOMAIN readers :
                      readers[k].open => readers[k].header # writers[w].header)
    /\ [][\A w \in DOMAIN writers :
            (writers[w].open /\ last'.op \in HeaderMutations) =>
                /\ writers'[w] = writers[w]
                /\ hdrs'[writers[w].header] = hdrs[writers[w].header]]_vars

\* A Header that a Writer was made from has since been given a sample the
\* Writer's header does not have, next to an open Reader.
C7_Witness ==
    /\ last.op = "push_sample"
    /\ \E w \in DOMAIN writers, h \in DOMAIN headers, k \in DOMAIN readers :
          /\ writers[w].open /\ headers[h].live /\ readers[k].open
          /\ headers[h].subset = writers[w].subset
          /\ hdrs[writers[w].header].samples # <<>>
          /\ Len(hdrs[headers[h].inner].samples) > Len(hdrs[writers[w].header].samples)

----------------------------------------------------------------------------
(* SpecPipe: tests::test_write (mod.rs:203-224).  The input is read with   *)
(* Reader 1; a Header is made by subset_template for the names in test, a  *)
(* Writer from it; every record is translated, subset, trimmed and         *)
(* written; Writer and Header go out of scope; the output is read back     *)
(* with Reader 2.  last tells where the test is; a failed expect ends it.  *)

\* The input files: the genotypes of the first record vary.
PipeFiles ==
    {[TestFile EXCEPT !.recs[1].fmt[1].vals = gt] :
        gt \in [1..3 -> 0..(Len(TestRecords[1].alleles) - 1)]}

\* The samples the test asks for: samples of the input, none twice.
PipeNames ==
    {s \in SeqsUpTo(Range(TestFile.hdr.samples), MaxSubset) :
        IsDupFree(s) /\ s # <<>>}

InitPipe ==
    /\ hdrs = [h \in 1..(MaxHdr + 1) |-> Unalloc]
    /\ headers = [h \in 1..MaxHeaders |-> NoHeader]
    /\ readers = [k \in 1..(MaxReaders + 1) |-> NoReader]
    /\ writers = [w \in 1..MaxWriters |-> NoWriter]
    /\ recs = [r \in RecIds |-> NoRecord]
    /\ disk \in {[p \in Paths |-> IF p = InPath THEN f ELSE NoFile] : f \in PipeFiles}
    /\ last = Call("init", 0, 0, "unit")
    /\ crashed = FALSE
    /\ test \in PipeNames

NextPipe ==
    \/ last.op = "init" /\ Reader_new(1, InPath)
    \/ /\ last.op = "Reader::new" /\ last.obj = 1
       /\ subset_template(1, readers[1].header, test)
    \/ last.op = "subset_template" /\ last.res = "Ok" /\ Writer_new(1, 1)
    \/ /\ \/ last.op = "Writer::new"
          \/ last.op = "write" /\ last.res = "Ok"
       /\ \E rc \in RCs : Records_next(1, 1, rc)
    \/ /\ last.op = "next" /\ last.obj = 1 /\ last.res = "Some(Ok)"
       /\ \E ub \in UBVals, how \in Hows : translate(1, 1, ub, how)
    \/ /\ last.op = "translate" /\ last.res = "unit"
       /\ \E ub \in UBVals, how \in Hows : subset(1, 1, ub, how)
    \/ last.op = "subset" /\ last.res = "unit" /\ trim_alleles(1)
    \/ /\ last.op = "trim_alleles" /\ last.res = "Ok"
       /\ \E io \in {RC_OK, WRITE_ERR} : write(1, 1, io)
    \/ last.op = "next" /\ last.obj = 1 /\ last.res = "None" /\ Writer_drop(1)
    \/ last.op = "Writer::drop" /\ Header_drop(1)
    \/ last.op = "Header::drop" /\ Reader_new(2, OutPath(1))
    \/ /\ \/ last.op = "Reader::new" /\ last.obj = 2
          \/ last.op = "next" /\ last.obj = 2 /\ last.res = "Some(Ok)"
       /\ \E rc \in RCs : Records_next(2, 1, rc)

SpecPipe == InitPipe /\ [][NextPipe]_vars

\* The allele a genotype value names.
AlleleOf(v, g) == v.alleles[g + 1]

\* The position of a sample in the input file's header.
SourceIndex(name) == sample_id2int(disk[InPath].hdr.samples, name) + 1

\* Whether record o is record s restricted to the samples of names: same
\* contig, position and INFO; per FORMAT field one value per name, calling
\* the allele that sample calls in s; the alleles those of s that are the
\* reference or called by a named sample, in the order of s.
RestrictedTo(o, s, names) ==
    /\ o.rid = s.rid /\ o.pos = s.pos /\ o.info = s.info
    /\ o.n_sample = Len(names)
    /\ DOMAIN o.fmt = DOMAIN s.fmt
    /\ \A f \in DOMAIN o.fmt :
          /\ o.fmt[f].key = s.fmt[f].key
          /\ DOMAIN o.fmt[f].vals = DOMAIN names
          /\ \A j \in DOMAIN names :
                /\ o.fmt[f].vals[j] + 1 \in DOMAIN o.alleles
                /\ AlleleOf(o, o.fmt[f].vals[j])
                      = AlleleOf(s, s.fmt[f].vals[SourceIndex(names[j])])
    /\ o.alleles # <<>> /\ o.alleles[1] = s.alleles[1]
    /\ Range(o.alleles) =
          {s.alleles[1]} \cup
          {AlleleOf(s, s.fmt[f].vals[SourceIndex(names[j])]) :
              f \in DOMAIN s.fmt, j \in DOMAIN names}
    /\ \A a, b \in DOMAIN o.alleles :
          a < b => \E c, d \in DOMAIN s.alleles :
                      c < d /\ s.alleles[c] = o.alleles[a] /\ s.alleles[d] = o.alleles[b]

====
